---------------------------- MODULE Spec2Model ----------------------------
(***************************************************************************)
(* snapbug: find potentially unused functions in a python source tree.     *)
(*                                                                         *)
(* A model of src/main.rs.  Text is a sequence of bytes, each a string:    *)
(* printable bytes are one-character strings, NL is the line feed, CR the  *)
(* carriage return and BAD a byte that is not valid UTF-8 (0xFF).          *)
(***************************************************************************)
EXTENDS Integers, Sequences, FiniteSets, TLC

NL == "\n"
CR == "\r"
BAD == "FF"

(***************************************************************************)
(* Bounds of the model.                                                    *)
(***************************************************************************)
\* the most lines of the file whose text is drawn freely
MaxLines == 2
\* the number of scans of the same tree (specification SpecTwice)
MaxRuns == 2

(***************************************************************************)
(* Strings.                                                                *)
(***************************************************************************)
\* the bytes of s from position i to its end
Drop(s, i) == SubSeq(s, i, Len(s))

\* str::starts_with
starts_with(s, p) == Len(p) <= Len(s) /\ SubSeq(s, 1, Len(p)) = p

\* str::ends_with
ends_with(s, p) ==
    Len(p) <= Len(s) /\ SubSeq(s, Len(s) - Len(p) + 1, Len(s)) = p

\* whether pattern p stands in s at position i
OccursAt(s, p, i) == i + Len(p) - 1 <= Len(s) /\ SubSeq(s, i, i + Len(p) - 1) = p

\* str::contains
contains(s, p) == \E i \in 1..(Len(s) + 1) : OccursAt(s, p, i)

\* str::matches(p).count(): the occurrences of p in s found from left to
\* right, each search resuming after the end of the occurrence before it
RECURSIVE matches_count_from(_, _, _)
matches_count_from(s, p, i) ==
    IF i + Len(p) - 1 > Len(s) THEN 0
    ELSE IF OccursAt(s, p, i) THEN 1 + matches_count_from(s, p, i + Len(p))
    ELSE matches_count_from(s, p, i + 1)

matches_count(s, p) == matches_count_from(s, p, 1)

\* OsStr::to_str: the text of a name, when its bytes are valid UTF-8
is_utf8(s) == \A i \in 1..Len(s) : s[i] # BAD

\* the concatenation of a sequence of byte strings
RECURSIVE Concat(_)
Concat(ss) == IF ss = << >> THEN << >> ELSE Head(ss) \o Concat(Tail(ss))

\* BufRead::lines: the text is cut after every line feed, the line feed and a
\* carriage return standing before it are dropped, and a last piece without a
\* line feed is a line as well
RECURSIVE BufLines(_)
BufLines(text) ==
    IF text = << >> THEN << >>
    ELSE LET nls == {i \in 1..Len(text) : text[i] = NL} IN
         IF nls = {} THEN << text >>
         ELSE LET n == CHOOSE i \in nls : \A j \in nls : i <= j
                  raw == SubSeq(text, 1, n - 1)
                  line == IF raw # << >> /\ raw[Len(raw)] = CR
                          THEN SubSeq(raw, 1, Len(raw) - 1) ELSE raw
              IN << line >> \o BufLines(Drop(text, n + 1))

(***************************************************************************)
(* The declaration pattern of scan_path: the start of the line, any bytes  *)
(* but #, "def ", the group (a non-space byte, then any bytes), any        *)
(* spaces, an open parenthesis, any bytes, the end of the line.            *)
(***************************************************************************)
\* \s
IsSpace(c) == c \in {" ", "\t", CR, NL, "\f"}

DefKeyword == << "d", "e", "f", " " >>

\* the pattern matches the line with "def " at i and the group ending at e:
\* no # before i, a non-space byte right after "def ", and after e only
\* spaces up to an open parenthesis
PatternMatches(line, i, e) ==
    /\ \A m \in 1..(i - 1) : line[m] # "#"
    /\ OccursAt(line, DefKeyword, i)
    /\ i + 4 <= e /\ e <= Len(line)
    /\ ~IsSpace(line[i + 4])
    /\ \A m \in (i + 4)..e : line[m] # NL
    /\ \E k \in (e + 1)..Len(line) :
          /\ line[k] = "("
          /\ \A m \in (e + 1)..(k - 1) : IsSpace(line[m])
          /\ \A m \in k..Len(line) : line[m] # NL

\* Regex::captures and group 1: << >> when the line does not match, else the
\* one-element sequence of the captured name.  Both [^#]* and .* are greedy:
\* the last "def " that lets the line match, then the longest group.
captures(line) ==
    LET starts == {i \in 1..Len(line) :
                      \E e \in 1..Len(line) : PatternMatches(line, i, e)} IN
    IF starts = {} THEN << >>
    ELSE LET i == CHOOSE x \in starts : \A y \in starts : y <= x
             ends == {e \in 1..Len(line) : PatternMatches(line, i, e)}
             e == CHOOSE x \in ends : \A y \in ends : y <= x
         IN << SubSeq(line, i + 4, e) >>

\* a policy that leaves dunder names in
consider_unless_test(name) == ~contains(name, << "t", "e", "s", "t", "_" >>)

(***************************************************************************)
(* Test and dunder methods are allowed to be "unused."                     *)
(***************************************************************************)
should_consider_function(name) ==
    /\ ~contains(name, << "t", "e", "s", "t", "_" >>)
    /\ ~contains(name, << "_", "_" >>)

(***************************************************************************)
(* The file tree and the walk over it.  A node of the tree is a record     *)
(*   name      the bytes of its file name                                  *)
(*   kind      "dir", "file" or "symlink"                                  *)
(*   ok        a directory can be listed, a file can be opened             *)
(*   text      the bytes of a file                                         *)
(*   children  the nodes of a directory, in the order read_dir gives them  *)
(***************************************************************************)
\* walkdir::DirEntry of a node found below the path parent
DirEntryOf(node, parent) ==
    [path |-> Append(parent, node.name), file_name |-> node.name,
     file_type |-> node.kind, ok |-> node.ok, text |-> node.text]

\* a filter that lets hidden entries through
is_useful_hidden_too(entry) == is_utf8(entry.file_name)

\* We only consider non-hidden entries.
is_useful(entry) ==
    IF is_utf8(entry.file_name)
    THEN ~starts_with(entry.file_name, << "." >>)
    ELSE FALSE

\* Assumes anything ending with `.py` is a python source file.
is_python_file(entry) ==
    /\ entry.file_type = "file"
    /\ IF is_utf8(entry.file_name)
       THEN ends_with(entry.file_name, << ".", "p", "y" >>)
       ELSE FALSE

\* WalkDir::new(path).into_iter().filter_entry(is_useful): the results of the
\* walk, depth first and parents first.  An entry that is not useful is left
\* out and not descended into (the root as well); a directory that cannot be
\* listed gives its entry and then an error.
RECURSIVE WalkFilterEntry(_, _)
WalkFilterEntry(node, parent) ==
    LET entry == DirEntryOf(node, parent)
        below == [i \in 1..Len(node.children) |->
                     WalkFilterEntry(node.children[i], entry.path)]
    IN IF ~is_useful(entry) THEN << >>
       ELSE << [is_ok |-> TRUE, entry |-> entry] >> \o
            (IF node.kind # "dir" THEN << >>
             ELSE IF ~node.ok THEN << [is_ok |-> FALSE] >>
             ELSE Concat(below))

ResultIsOk(r) == r.is_ok
ResultIsPython(r) == is_python_file(r.entry)

\* Returns an iterator over all python files in the given path.
make_walker(root) ==
    LET results == WalkFilterEntry(root, << >>)
        oks == SelectSeq(results, ResultIsOk)
        pys == SelectSeq(oks, ResultIsPython)
    IN [i \in 1..Len(pys) |-> pys[i].entry]

(***************************************************************************)
(* The order of locations: (PathBuf, usize) compares the paths component   *)
(* by component, each component byte by byte, and then the line numbers.   *)
(***************************************************************************)
Letters == << "a", "b", "c", "d", "e", "f", "g", "h", "i", "j", "k", "l", "m",
              "n", "o", "p", "q", "r", "s", "t", "u", "v", "w", "x", "y", "z" >>

\* the value of a byte of a file name
ByteValue(c) ==
    IF c = "." THEN 46
    ELSE IF c = "/" THEN 47
    ELSE IF c = BAD THEN 255
    ELSE 96 + (CHOOSE i \in 1..Len(Letters) : Letters[i] = c)

\* -1, 0 or 1 as byte string s is below, equal to or above t
RECURSIVE CmpBytes(_, _)
CmpBytes(s, t) ==
    IF s = << >> THEN (IF t = << >> THEN 0 ELSE -1)
    ELSE IF t = << >> THEN 1
    ELSE IF ByteValue(Head(s)) < ByteValue(Head(t)) THEN -1
    ELSE IF ByteValue(Head(s)) > ByteValue(Head(t)) THEN 1
    ELSE CmpBytes(Tail(s), Tail(t))

\* Ord for Path: the components are compared one after the other
RECURSIVE CmpPath(_, _)
CmpPath(p, q) ==
    IF p = << >> THEN (IF q = << >> THEN 0 ELSE -1)
    ELSE IF q = << >> THEN 1
    ELSE IF CmpBytes(Head(p), Head(q)) # 0 THEN CmpBytes(Head(p), Head(q))
    ELSE CmpPath(Tail(p), Tail(q))

\* Ord for the tuple (PathBuf, usize)
LocationLe(k1, k2) ==
    \/ CmpPath(k1[1], k2[1]) < 0
    \/ CmpPath(k1[1], k2[1]) = 0 /\ k1[2] <= k2[2]

\* the place of x in a sorted sequence: behind every element not above it
RECURSIVE InsertByKey(_, _)
InsertByKey(sorted, x) ==
    IF sorted = << >> THEN << x >>
    ELSE IF LocationLe(sorted[Len(sorted)].location, x.location)
         THEN Append(sorted, x)
         ELSE Append(InsertByKey(SubSeq(sorted, 1, Len(sorted) - 1), x),
                     sorted[Len(sorted)])

\* the sequence left as it is
unsorted(fs) == fs

\* slice::sort_by_key(|function| &function.location), a stable sort
RECURSIVE sort_by_key(_)
sort_by_key(fs) ==
    IF fs = << >> THEN << >>
    ELSE InsertByKey(sort_by_key(SubSeq(fs, 1, Len(fs) - 1)), fs[Len(fs)])

\* the orders in which a hash set or hash map may hand out its elements
IterationOrders(S) ==
    {s \in [1..Cardinality(S) -> S] : \A i, j \in DOMAIN s : s[i] = s[j] => i = j}

(***************************************************************************)
(* The trees the scan is run on.                                           *)
(***************************************************************************)
DeclAb == DefKeyword \o << "a", "b", "(" >>
DeclC == DefKeyword \o << "c", "(" >>

\* the lines the freely drawn file is made of: declarations (plain, with a
\* second parenthesis, with a space before the parenthesis, commented out, of
\* a test, of a dunder), uses, pieces of a name, and a line that is not
\* valid UTF-8
FreeLines ==
    { DeclAb, DeclC,
      DefKeyword \o << "a", "b", "(", "(" >>,
      << "a", "b" >>, << "a" >>, << "b" >>,
      DefKeyword \o << "a", "b", " ", "(" >>,
      << "#" >> \o DeclAb,
      DefKeyword \o << "t", "e", "s", "t", "_", "a", "(" >>,
      DefKeyword \o << "a", "_", "_", "(" >>,
      << BAD >> }

RECURSIVE SeqsUpTo(_, _)
SeqsUpTo(S, n) ==
    IF n = 0 THEN { << >> }
    ELSE LET shorter == SeqsUpTo(S, n - 1) IN
         shorter \cup {Append(s, x) : s \in shorter, x \in S}

FreeTexts == SeqsUpTo(FreeLines, MaxLines)

\* the lines of the second file
SideTexts == { << << "b" >> >>, << << "a", "b" >> >>, << DeclC >>, << DeclAb >> }

\* the bytes of a file whose lines each end with eol
Unlines(ls, eol) == Concat([i \in 1..Len(ls) |-> ls[i] \o eol])

\* the bytes of a file whose last line has no line feed
UnlinesOpenEnd(ls) ==
    Concat([i \in 1..Len(ls) |-> IF i < Len(ls) THEN ls[i] \o << NL >> ELSE ls[i]])

FileNode(name, text) ==
    [name |-> name, kind |-> "file", ok |-> TRUE, text |-> text, children |-> << >>]
LockedFileNode(name) ==
    [name |-> name, kind |-> "file", ok |-> FALSE, text |-> << >>, children |-> << >>]
SymlinkNode(name, text) ==
    [name |-> name, kind |-> "symlink", ok |-> TRUE, text |-> text, children |-> << >>]
DirNode(name, children) ==
    [name |-> name, kind |-> "dir", ok |-> TRUE, text |-> << >>, children |-> children]
LockedDirNode(name, children) ==
    [name |-> name, kind |-> "dir", ok |-> FALSE, text |-> << >>, children |-> children]

APy == << "a", ".", "p", "y" >>
BPy == << "b", ".", "p", "y" >>
CPy == << "c", ".", "p", "y" >>

\* the trees with a freely drawn file: two files side by side, and a file
\* a.py beside a directory a (the file with CR LF line ends, the file in the
\* directory without a final line feed)
FreeTrees(xs, ys) ==
    { DirNode(<< "r" >>, << FileNode(APy, Unlines(xs, << NL >>)),
                            FileNode(BPy, Unlines(ys, << NL >>)) >>),
      DirNode(<< "r" >>, << FileNode(APy, Unlines(xs, << CR, NL >>)),
                            DirNode(<< "a" >>, << FileNode(CPy, UnlinesOpenEnd(ys)) >>) >>) }

\* the trees that try the walk: hidden entries, names that are not UTF-8, a
\* directory that cannot be listed, a file that cannot be opened, a hidden
\* root, a root that is a file, and entries named .py that are no files
FixedTrees(ys) ==
    LET y == Unlines(ys, << NL >>)
        ab == Unlines(<< DeclAb >>, << NL >>)
    IN
    { DirNode(<< "r" >>, << DirNode(<< "a" >>, << FileNode(CPy, y) >>),
                            FileNode(APy, ab) >>),
      DirNode(<< "r" >>, << DirNode(<< ".", "g" >>, << FileNode(CPy, y) >>),
                            FileNode(<< ".", "h", ".", "p", "y" >>, y),
                            FileNode(<< "n", ".", "t", "x", "t" >>, y),
                            FileNode(BPy, ab) >>),
      DirNode(<< "r" >>, << DirNode(<< BAD >>, << FileNode(CPy, y) >>),
                            FileNode(<< BAD, ".", "p", "y" >>, y),
                            FileNode(BPy, ab) >>),
      DirNode(<< "r" >>, << LockedDirNode(<< "u" >>, << FileNode(CPy, y) >>),
                            FileNode(BPy, ab) >>),
      DirNode(<< "r" >>, << FileNode(BPy, y), LockedFileNode(APy) >>),
      DirNode(<< ".", "r" >>, << FileNode(APy, y) >>),
      FileNode(APy, y),
      DirNode(<< "r" >>, << SymlinkNode(<< "s", ".", "p", "y" >>, y),
                            DirNode(<< "d", ".", "p", "y" >>, << FileNode(CPy, y) >>),
                            FileNode(BPy, ab) >>) }

(***************************************************************************)
(* The state of one run of main.                                           *)
(***************************************************************************)
VARIABLES
    root,              \* the tree below the canonicalized path
    pc,                \* where main stands
    walker,            \* the entries the walker has still to give
    entry,             \* the path of the file being read
    reader,            \* the lines the file being read has still to give
    lineno,            \* the lines of that file read so far
    functions,         \* the HashSet of declared functions
    haystack,          \* the bytes of the haystack file
    position,          \* the offset scan_path and main leave the haystack at
    haystack_reader,   \* the lines the haystack has still to give
    counts,            \* the HashMap from a function to its count
    unused_functions,  \* what scan_for_unused_functions returned
    outcome,           \* how main returned
    run,               \* the number of this run of main
    previous           \* what the run before returned

vars == << root, pc, walker, entry, reader, lineno, functions, haystack,
           position, haystack_reader, counts, unused_functions, outcome,
           run, previous >>

\* the state main starts from
Fresh ==
    /\ pc = "start"
    /\ walker = << >>
    /\ entry = << >>
    /\ reader = << >>
    /\ lineno = 0
    /\ functions = {}
    /\ haystack = << >>
    /\ position = 0
    /\ haystack_reader = << >>
    /\ counts = << >>
    /\ unused_functions = << >>
    /\ outcome = "running"

Init ==
    /\ \E xs \in FreeTexts, ys \in SideTexts :
          root \in FreeTrees(xs, ys) \cup FixedTrees(ys)
    /\ Fresh
    /\ run = 1
    /\ previous = << >>

(***************************************************************************)
(* scan_path: walk the given path, finding all declared functions; also    *)
(* populates the haystack file used later for counting references.         *)
(***************************************************************************)
\* Write::write_all at the offset pos of a file
write_all(file, pos, bytes) ==
    SubSeq(file, 1, pos) \o bytes \o Drop(file, pos + Len(bytes) + 1)

\* the functions after the line numbered n of the file at path: the captured
\* name, when there is one and it is to be considered, is inserted
insert_declared(fs, line, path, n) ==
    LET name == captures(line) IN
    IF name # << >> /\ should_consider_function(name[1])
    THEN fs \cup { [name |-> name[1], location |-> << path, n >>] }
    ELSE fs

\* main up to the call of scan_path, and scan_path up to its loop
Start ==
    /\ pc = "start"
    /\ walker' = make_walker(root)
    /\ pc' = "walk"
    /\ UNCHANGED << root, entry, reader, lineno, functions, haystack, position,
                    haystack_reader, counts, unused_functions, outcome, run,
                    previous >>

\* the walker gives an entry and File::open opens it
OpenFile ==
    /\ pc = "walk"
    /\ walker # << >>
    /\ Head(walker).ok
    /\ entry' = Head(walker).path
    /\ reader' = BufLines(Head(walker).text)
    /\ lineno' = 0
    /\ walker' = Tail(walker)
    /\ pc' = "lines"
    /\ UNCHANGED << root, functions, haystack, position, haystack_reader,
                    counts, unused_functions, outcome, run, previous >>

\* a loop that goes on to the next entry when File::open fails
OpenFailsSkipped ==
    /\ pc = "walk"
    /\ walker # << >>
    /\ ~Head(walker).ok
    /\ walker' = Tail(walker)
    /\ UNCHANGED << root, pc, entry, reader, lineno, functions, haystack,
                    position, haystack_reader, counts, unused_functions,
                    outcome, run, previous >>

\* the walker gives an entry, File::open fails and ? returns the error
OpenFails ==
    /\ pc = "walk"
    /\ walker # << >>
    /\ ~Head(walker).ok
    /\ outcome' = "io_error"
    /\ pc' = "done"
    /\ UNCHANGED << root, walker, entry, reader, lineno, functions, haystack,
                    position, haystack_reader, counts, unused_functions, run,
                    previous >>

\* one turn of the loop over the lines of the file
ReadLine ==
    /\ pc = "lines"
    /\ reader # << >>
    /\ is_utf8(Head(reader))
    /\ functions' = insert_declared(functions, Head(reader), entry, lineno + 1)
    /\ haystack' = write_all(haystack, position, Head(reader))
    /\ position' = position + Len(Head(reader))
    /\ lineno' = lineno + 1
    /\ reader' = Tail(reader)
    /\ UNCHANGED << root, pc, walker, entry, haystack_reader, counts,
                    unused_functions, outcome, run, previous >>

\* the line is not valid UTF-8: lines() gives an error and ? returns it
ReadLineFails ==
    /\ pc = "lines"
    /\ reader # << >>
    /\ ~is_utf8(Head(reader))
    /\ outcome' = "io_error"
    /\ pc' = "done"
    /\ UNCHANGED << root, walker, entry, reader, lineno, functions, haystack,
                    position, haystack_reader, counts, unused_functions, run,
                    previous >>

\* the file has no more lines
EndOfFile ==
    /\ pc = "lines"
    /\ reader = << >>
    /\ pc' = "walk"
    /\ UNCHANGED << root, walker, entry, reader, lineno, functions, haystack,
                    position, haystack_reader, counts, unused_functions,
                    outcome, run, previous >>

\* the walker has no more entries: scan_path returns the functions
EndOfWalk ==
    /\ pc = "walk"
    /\ walker = << >>
    /\ pc' = "seek"
    /\ UNCHANGED << root, walker, entry, reader, lineno, functions, haystack,
                    position, haystack_reader, counts, unused_functions,
                    outcome, run, previous >>

(***************************************************************************)
(* main: haystack.seek(SeekFrom::Start(0)), and scan_for_unused_functions: *)
(* scan the haystack file to find functions that are only mentioned once.  *)
(***************************************************************************)
Seek ==
    /\ pc = "seek"
    /\ position' = 0
    /\ haystack_reader' = BufLines(Drop(haystack, position' + 1))
    /\ counts' = << >>
    /\ pc' = "count"
    /\ UNCHANGED << root, walker, entry, reader, lineno, functions, haystack,
                    unused_functions, outcome, run, previous >>

\* a count of the lines that hold the name, whatever the times they hold it
line_contains(line, name) == IF contains(line, name) THEN 1 ELSE 0

\* line.matches(&function.name).count()
line_matches(line, name) == matches_count(line, name)

\* the counts after one line of the haystack: every function's entry, made
\* with 0 when it is not there, grows by the matches of its name in the line
count_line(cs, fs, line) ==
    [f \in fs |-> (IF f \in DOMAIN cs THEN cs[f] ELSE 0) + line_matches(line, f.name)]

\* one turn of the loop over the lines of the haystack
CountLine ==
    /\ pc = "count"
    /\ haystack_reader # << >>
    /\ counts' = count_line(counts, functions, Head(haystack_reader))
    /\ haystack_reader' = Tail(haystack_reader)
    /\ UNCHANGED << root, pc, walker, entry, reader, lineno, functions,
                    haystack, position, unused_functions, outcome, run,
                    previous >>

\* the entries with a count below 2 in the order the map hands them out
find_unused_unsorted(cs, order) == SelectSeq(order, LAMBDA f : cs[f] < 2)

\* Return all functions that are only mentioned once: the entries of the map,
\* in the order it hands them out, with a count below 2, sorted by location
find_unused_functions(cs, order) ==
    sort_by_key(SelectSeq(order, LAMBDA f : cs[f] < 2))

\* the haystack has no more lines
FindUnused ==
    /\ pc = "count"
    /\ haystack_reader = << >>
    /\ \E order \in IterationOrders(DOMAIN counts) :
          unused_functions' = find_unused_functions(counts, order)
    /\ pc' = "report"
    /\ UNCHANGED << root, walker, entry, reader, lineno, functions, haystack,
                    position, haystack_reader, counts, outcome, run, previous >>

\* main prints the findings and fails when there is one
Exit ==
    /\ pc = "report"
    /\ outcome' = IF Len(unused_functions) > 0 THEN "unused_found" ELSE "ok"
    /\ pc' = "done"
    /\ UNCHANGED << root, walker, entry, reader, lineno, functions, haystack,
                    position, haystack_reader, counts, unused_functions, run,
                    previous >>

Next ==
    \/ Start
    \/ OpenFile
    \/ OpenFails
    \/ ReadLine
    \/ ReadLineFails
    \/ EndOfFile
    \/ EndOfWalk
    \/ Seek
    \/ CountLine
    \/ FindUnused
    \/ Exit

Spec == Init /\ [][Next]_vars

\* the program is run again on the tree as it is
Rerun ==
    /\ pc = "done"
    /\ run < MaxRuns
    /\ run' = run + 1
    /\ previous' = << [unused_functions |-> unused_functions, outcome |-> outcome] >>
    /\ pc' = "start"
    /\ walker' = << >>
    /\ entry' = << >>
    /\ reader' = << >>
    /\ lineno' = 0
    /\ functions' = {}
    /\ haystack' = << >>
    /\ position' = 0
    /\ haystack_reader' = << >>
    /\ counts' = << >>
    /\ unused_functions' = << >>
    /\ outcome' = "running"
    /\ UNCHANGED root

NextTwice == Next \/ Rerun

SpecTwice == Init /\ [][NextTwice]_vars

(***************************************************************************)
(* What the properties speak of.                                           *)
(***************************************************************************)
\* the counting pass has run to its end
Counted == pc = "report" \/ (pc = "done" /\ outcome # "io_error")

\* the walk has run to its end
Walked == pc \in {"seek", "count", "report"} \/ (pc = "done" /\ outcome # "io_error")

\* the lines of a sequence of files, one file after the other
LinesOf(files) == Concat([i \in 1..Len(files) |-> BufLines(files[i].text)])

\* the lines of every eligible file
CorpusLines == LinesOf(make_walker(root))

\* the occurrences of a name, line by line
RECURSIVE PerLineTotal(_, _)
PerLineTotal(lines, name) ==
    IF lines = << >> THEN 0
    ELSE matches_count(Head(lines), name) + PerLineTotal(Tail(lines), name)

\* the findings as a set
Findings == {unused_functions[i] : i \in 1..Len(unused_functions)}

\* the haystack scan_path writes when it is given the files in this order
HaystackOf(files) == Concat(LinesOf(files))

\* the counts scan_for_unused_functions makes of a haystack
RECURSIVE CountsOver(_, _, _)
CountsOver(cs, fs, lines) ==
    IF lines = << >> THEN cs
    ELSE CountsOver(count_line(cs, fs, Head(lines)), fs, Tail(lines))

\* the functions scan_path collects from a sequence of files
RECURSIVE DeclaredInLines(_, _, _, _)
DeclaredInLines(fs, lines, path, n) ==
    IF lines = << >> THEN fs
    ELSE DeclaredInLines(insert_declared(fs, Head(lines), path, n + 1),
                         Tail(lines), path, n + 1)

RECURSIVE DeclaredIn(_)
DeclaredIn(files) ==
    IF files = << >> THEN {}
    ELSE DeclaredInLines({}, BufLines(Head(files).text), Head(files).path, 0)
         \cup DeclaredIn(Tail(files))

\* the python files of a tree as the file eligibility rule names them, parents
\* first: nothing below a name that starts with a dot (nor, when text_names
\* is set, below a name that is not valid UTF-8), nothing below a directory
\* that cannot be listed, and only regular files whose name ends with .py
RECURSIVE EligibleFiles(_, _, _)
EligibleFiles(node, parent, text_names) ==
    LET below == [i \in 1..Len(node.children) |->
                     EligibleFiles(node.children[i], Append(parent, node.name),
                                   text_names)]
    IN IF starts_with(node.name, << "." >>) THEN << >>
       ELSE IF text_names /\ ~is_utf8(node.name) THEN << >>
       ELSE IF node.kind = "file"
            THEN (IF ends_with(node.name, << ".", "p", "y" >>)
                  THEN << DirEntryOf(node, parent) >> ELSE << >>)
       ELSE IF node.kind = "dir" /\ node.ok THEN Concat(below)
       ELSE << >>

\* the path as a string: the components, each after a slash
RECURSIVE PathString(_)
PathString(path) ==
    IF path = << >> THEN << >>
    ELSE << "/" >> \o Head(path) \o PathString(Tail(path))

\* the nodes of a tree that the walk lists: those below useful directories
RECURSIVE WalkedNodes(_)
WalkedNodes(node) ==
    IF ~is_useful(DirEntryOf(node, << >>)) THEN {}
    ELSE {node} \cup
         (IF node.kind = "dir" /\ node.ok
          THEN UNION {WalkedNodes(node.children[i]) : i \in 1..Len(node.children)}
          ELSE {})

\* the walk meets a directory it cannot list
WalkFailure == \E n \in WalkedNodes(root) : n.kind = "dir" /\ ~n.ok

\* a python file of the walk cannot be opened, or holds a line that cannot be read
ReadFailure ==
    \E i \in 1..Len(make_walker(root)) :
       LET e == make_walker(root)[i] IN
       \/ ~e.ok
       \/ \E j \in 1..Len(BufLines(e.text)) : ~is_utf8(BufLines(e.text)[j])

(***************************************************************************)
(* The properties.                                                         *)
(***************************************************************************)
\* C1: when the counting pass has ended, the count of every collected
\* function is the sum, over every line of every eligible file, of the
\* occurrences of its name within that line; an occurrence that straddles
\* two lines or two files is not counted.
C1_CountIsPerLineSum ==
    Counted =>
        \A f \in functions :
            /\ f \in DOMAIN counts
            /\ counts[f] = PerLineTotal(CorpusLines, f.name)

\* C2: the findings are exactly the collected functions whose name occurs
\* fewer than two times in total across the lines of all eligible files.
C2_FindingsAreBelowTwo ==
    Counted =>
        Findings = {f \in functions : PerLineTotal(CorpusLines, f.name) < 2}

\* C3 as stated: a finding whose path is the smaller one as a string stands
\* before the other; with equal paths the smaller line number stands first.
C3_SortedByPathString ==
    \A i, j \in 1..Len(unused_functions) :
        LET a == unused_functions[i].location
            b == unused_functions[j].location
        IN /\ CmpBytes(PathString(a[1]), PathString(b[1])) < 0 => i < j
           /\ (a[1] = b[1] /\ a[2] < b[2]) => i < j

\* C3 as amended: a finding whose path is the smaller one when the paths are
\* compared component by component stands before the other; with equal
\* paths the smaller line number stands first.
C3_SortedByPathComponents ==
    \A i, j \in 1..Len(unused_functions) :
        LET a == unused_functions[i].location
            b == unused_functions[j].location
        IN /\ CmpPath(a[1], b[1]) < 0 => i < j
           /\ (a[1] = b[1] /\ a[2] < b[2]) => i < j

\* C3 witness: a finished scan with two findings in different files whose
\* paths compare one way as strings and the other way by components.
C3_Witness ==
    /\ pc = "done"
    /\ \E i, j \in 1..Len(unused_functions) :
          /\ CmpPath(unused_functions[i].location[1],
                     unused_functions[j].location[1]) < 0
          /\ CmpBytes(PathString(unused_functions[i].location[1]),
                      PathString(unused_functions[j].location[1])) > 0

\* C4: the counts do not depend on the order in which the eligible files are
\* visited: the counting pass run over the files in any order gives every
\* function the count this run gave it.
C4_CountsIgnoreFileOrder ==
    Counted =>
        \A order \in IterationOrders({make_walker(root)[i] :
                                         i \in 1..Len(make_walker(root))}) :
            CountsOver(<< >>, functions, BufLines(HaystackOf(order))) = counts

C6_NoExcludedFinding ==
    \A f \in Findings :
        /\ ~contains(f.name, << "t", "e", "s", "t", "_" >>)
        /\ ~contains(f.name, << "_", "_" >>)

\* C6 witness: a finished scan of a tree in which a declaration of an
\* excluded name stands in an eligible file and the name occurs only once.
C6_Witness ==
    /\ pc = "done"
    /\ outcome # "io_error"
    /\ \E i \in 1..Len(CorpusLines) :
          LET name == captures(CorpusLines[i]) IN
          /\ name # << >>
          /\ contains(name[1], << "_", "_" >>)
          /\ matches_count(haystack, name[1]) = 1

\* C7: a second scan of the unchanged tree returns the findings of the first
\* in the same order, and ends the same way, whatever the order in which the
\* hash map hands out its entries in either run.
C7_SecondRunAgrees ==
    (run > 1 /\ pc = "done") =>
        /\ previous[1].unused_functions = unused_functions
        /\ previous[1].outcome = outcome

\* C7 witness: a second run that ended with two findings or more.
C7_Witness ==
    /\ run > 1
    /\ pc = "done"
    /\ Len(unused_functions) >= 2

\* C8 as stated: when the walk has ended, the haystack holds the lines, and
\* the functions are the considered declarations, of exactly the regular
\* files named .py that no name starting with a dot stands above.
C8_ScansNonHiddenPython ==
    Walked =>
        /\ haystack = HaystackOf(EligibleFiles(root, << >>, FALSE))
        /\ functions = DeclaredIn(EligibleFiles(root, << >>, FALSE))

\* C8 as amended: when the walk has ended, the haystack holds the lines, and
\* the functions are the considered declarations, of exactly the regular
\* files named .py that no name starting with a dot and no name that is
\* not valid UTF-8 stands above (the file's own name and the root's included).
C8_ScansNonHiddenTextNamedPython ==
    Walked =>
        /\ haystack = HaystackOf(EligibleFiles(root, << >>, TRUE))
        /\ functions = DeclaredIn(EligibleFiles(root, << >>, TRUE))

\* C8 witness: the walk has ended on a tree with a python file in a hidden
\* directory and a hidden python file, and another file was scanned.
C8_Witness ==
    /\ pc = "seek"
    /\ haystack # << >>
    /\ root.kind = "dir"
    /\ \E i, j \in 1..Len(root.children) :
          /\ root.children[i].kind = "dir"
          /\ starts_with(root.children[i].name, << "." >>)
          /\ root.children[i].children # << >>
          /\ root.children[j].kind = "file"
          /\ starts_with(root.children[j].name, << "." >>)
          /\ root.children[j].text # << >>

\* C9: the name of a collected function never ends with a whitespace byte.
C9_NameEndsWithoutSpace ==
    \A f \in functions : ~IsSpace(f.name[Len(f.name)])

\* C10: functions of the same name declared at different places get the same
\* count, the count is at least 2, and none of them is a finding.
C10_SameNameTwice ==
    Counted =>
        \A f, g \in functions :
            (f.name = g.name /\ f.location # g.location) =>
                /\ counts[f] = counts[g]
                /\ counts[f] >= 2
                /\ f \notin Findings
                /\ g \notin Findings

\* C10 witness: a finished scan with a name declared at two places that
\* occurs nowhere but on its two declaration lines.
C10_Witness ==
    /\ pc = "done"
    /\ outcome # "io_error"
    /\ \E f, g \in functions :
          /\ f.name = g.name
          /\ f.location # g.location
          /\ PerLineTotal(CorpusLines, f.name) = 2

=============================================================================
